---- MODULE Spec2Model ----
(***************************************************************************)
(* Projection engine of src/prevoyance.py (class CalculateurPrevoyance)    *)
(* and the control flow of main() in src/app.py.                           *)
(*                                                                         *)
(* Numbers.  The engine computes with Python floats.  The model computes   *)
(* with fixed-point numbers and rounds (downwards) after every operation,  *)
(* as a float operation rounds after every operation:                      *)
(*   - an amount is an integer number of monetary units;                   *)
(*   - a rate, a factor or a fraction f is the integer f * RateScale;      *)
(*   - a percentage given to the constructor is a whole number of tenths   *)
(*     of a percent, the step of the form's sliders.                       *)
(* Optional values (Python None) are sequences: NONE is <<>>, a value v is *)
(* Some(v) = <<v>>.                                                        *)
(***************************************************************************)
EXTENDS Integers, Sequences, FiniteSets, TLC

\* Largest simulated horizon (age_retraite - age_depart) of the parameter sets.
MaxHorizon == 3

\* Largest number of calculer calls made on the calculator called directly.
MaxAppels == 2

\* Fixed-point denominator of rates and factors (1.0 is RateScale).
RateScale == 100 * 100

\* range(12): the months of one simulated year.
Mois == 12

\* Percentages are counted in steps of the form's sliders: 1 / PctScale percent.
PctScale == 10

NONE == <<>>

Some(v) == <<v>>

\* Variant of Max without the floor: the second argument whatever the first.
Max_SansPlancher(a, b) == b

Max(a, b) == IF a >= b THEN a ELSE b

Min(a, b) == IF a <= b THEN a ELSE b

Abs(a) == IF a >= 0 THEN a ELSE 0 - a

(***************************************************************************)
(* Fixed-point arithmetic.                                                 *)
(***************************************************************************)

\* percentage / 100, as a fraction.
Frac(pct) == (pct * RateScale) \div (100 * PctScale)

\* fraction * 100, as a percentage.
Pct(f) == (f * 100 * PctScale) \div RateScale

\* x * f for an amount or factor x >= 0 and a factor f >= 0: floor(x*f/RateScale),
\* computed in two parts so that no intermediate product leaves 32 bits.
MulRate(x, f) == (x \div RateScale) * f + ((x % RateScale) * f) \div RateScale

\* x / f for an amount x >= 0 and a factor f > 0: floor(x*RateScale/f).
DivRate(x, f) == (x \div f) * RateScale + ((x % f) * RateScale) \div f

\* f ** n for a factor f and an integer n >= 0.
RECURSIVE PowRate(_, _)
PowRate(f, n) == IF n <= 0 THEN RateScale ELSE MulRate(PowRate(f, n - 1), f)

\* f ** (1 / 12) for a factor f >= 1.0: the largest factor whose 12th power
\* does not exceed f.  It lies between 1 and 1 + (f - 1) / 12.
Racine12(f) ==
    CHOOSE g \in RateScale..(RateScale + (f - RateScale) \div Mois + 1) :
        /\ PowRate(g, Mois) <= f
        /\ PowRate(g + 1, Mois) > f

(***************************************************************************)
(* class CalculateurPrevoyance.                                            *)
(***************************************************************************)

\* dict.get(key, default) on a rate table.
Get(mapping, key, default) ==
    IF key \in DOMAIN mapping THEN mapping[key] ELSE default

\* __init__: the fields of a calculator built from the parameter record p.
\* The defaults of .get (7.0, 10.0, ... percent) are in tenths of a percent.
CalculateurPrevoyance(p) ==
    LET taux_dividendes_sp500 == Frac(p.taux_dividendes_sp500)
        taux_imposition == Frac(p.taux_imposition_dividendes)
        rendement_sp500_brut == Frac(p.rendement_sp500)
        rendement_lpp == Frac(p.rendement_lpp)
        impot_dividendes == MulRate(taux_dividendes_sp500, taux_imposition)
    IN  [ age_depart |-> p.age_depart,
          age_retraite |-> p.age_retraite,
          annees |-> p.age_retraite - p.age_depart,
          salaire_brut_initial |-> p.salaire_brut_initial,
          lpp_capital_initial |-> p.lpp_capital_initial,
          evolution_salaire |-> Frac(p.evolution_salaire_annuel),
          montant_mensuel_3a |-> p.montant_mensuel_3a,
          rendement_3a |-> Frac(p.rendement_3a),
          montant_mensuel_sp500 |-> p.montant_mensuel_sp500,
          rendement_sp500_brut |-> rendement_sp500_brut,
          taux_imposition |-> taux_imposition,
          rendement_lpp |-> rendement_lpp,
          inflation |-> Frac(p.inflation_annuelle),
          montant_coordination |-> p.montant_coordination,
          salaire_coordonne_max |-> p.salaire_coordonne_max,
          couvrir_surobligatoire |-> p.couvrir_surobligatoire,
          taux_dividendes_sp500 |-> taux_dividendes_sp500,
          taux_employe_lpp_paliers |->
            [ moins_30 |-> Frac(Get(p.taux_cotisation_employe_lpp_paliers, "moins_30", 70)),
              t30_39 |-> Frac(Get(p.taux_cotisation_employe_lpp_paliers, "t30_39", 100)),
              t40_49 |-> Frac(Get(p.taux_cotisation_employe_lpp_paliers, "t40_49", 150)),
              t50_plus |-> Frac(Get(p.taux_cotisation_employe_lpp_paliers, "t50_plus", 180)) ],
          taux_employeur_lpp_paliers |->
            [ moins_30 |-> Frac(Get(p.taux_cotisation_employeur_lpp_paliers, "moins_30", 80)),
              t30_39 |-> Frac(Get(p.taux_cotisation_employeur_lpp_paliers, "t30_39", 110)),
              t40_49 |-> Frac(Get(p.taux_cotisation_employeur_lpp_paliers, "t40_49", 160)),
              t50_plus |-> Frac(Get(p.taux_cotisation_employeur_lpp_paliers, "t50_plus", 190)) ],
          rendement_sp500_net |-> rendement_sp500_brut - impot_dividendes,
          rendement_lpp_mensuel |-> Racine12(RateScale + rendement_lpp) - RateScale ]

\* Variant of _taux_palier with inclusive thresholds.
_taux_palier_SeuilsInclus(age, mapping) ==
    IF age <= 30 THEN mapping.moins_30
    ELSE IF age <= 40 THEN mapping.t30_39
    ELSE IF age <= 50 THEN mapping.t40_49
    ELSE mapping.t50_plus

\* _taux_palier: the rate of the band of an attained age.  The keys "30_39",
\* "40_49" and "50_plus" of the source are t30_39, t40_49 and t50_plus.
_taux_palier(age, mapping) ==
    IF age < 30 THEN mapping.moins_30
    ELSE IF age < 40 THEN mapping.t30_39
    ELSE IF age < 50 THEN mapping.t40_49
    ELSE mapping.t50_plus

\* Variant of AgeAtteint with an off-by-one: the age at the start of the year.
AgeAtteint_DebutAnnee(self, annee) == self.age_depart + annee - 1

\* "age = self.age_depart + annee": the age attained in simulation year annee.
AgeAtteint(self, annee) == self.age_depart + annee

\* Variant of EstAnneeRetrait with an off-by-one: the year after the chosen one.
EstAnneeRetrait_AnneeSuivante(annee_retrait, annee) ==
    annee_retrait # NONE /\ annee = annee_retrait[1] + 1

\* Variant of EstAnneeRetrait that resets in every year from the chosen one on.
EstAnneeRetrait_DepuisAnnee(annee_retrait, annee) ==
    annee_retrait # NONE /\ annee >= annee_retrait[1]

\* Variant of EstAnneeRetrait that takes a withdrawal year below 1 for year 1.
EstAnneeRetrait_AvantDebut(annee_retrait, annee) ==
    /\ annee_retrait # NONE
    /\ \/ annee = annee_retrait[1]
       \/ annee_retrait[1] < 1 /\ annee = 1

\* "annee_retrait is not None and annee == annee_retrait".
EstAnneeRetrait(annee_retrait, annee) ==
    annee_retrait # NONE /\ annee = annee_retrait[1]

\* The inner loop "for _ in range(12)" of calculer_3a and calculer_sp500, n
\* months of it from the locals etat = [capital, versements_totaux]:
\* capital = capital * (1 + taux_mensuel) + versement and
\* versements_totaux += versement.
RECURSIVE MoisEpargne(_, _, _, _)
MoisEpargne(etat, taux_mensuel, versement, n) ==
    IF n = 0 THEN etat
    ELSE LET e == MoisEpargne(etat, taux_mensuel, versement, n - 1)
         IN  [ capital |-> MulRate(e.capital, RateScale + taux_mensuel) + versement,
               versements_totaux |-> e.versements_totaux + versement ]

\* calculer_3a, one pass of "for annee in range(1, self.annees + 1)": from the
\* locals [capital, versements_totaux, detail] before the year to those after.
Annee3a(self, annee_retrait, taux_mensuel, avant, annee) ==
    LET age == AgeAtteint(self, annee)
        mois == MoisEpargne([ capital |-> avant.capital,
                              versements_totaux |-> avant.versements_totaux ],
                            taux_mensuel, self.montant_mensuel_3a, Mois)
        retrait == EstAnneeRetrait(annee_retrait, annee)
        capital == IF retrait THEN 0 ELSE mois.capital
    IN  [ detail |-> Append(avant.detail,
            [ annee |-> annee,
              age |-> age,
              capital_3a |-> capital,
              versements_annee |-> self.montant_mensuel_3a * 12,
              retrait_immobilier |->
                IF retrait THEN Some(mois.capital) ELSE NONE ]),
          capital |-> capital,
          versements_totaux |-> mois.versements_totaux ]

\* Variant of Boucle3a in which the withdrawal also resets versements_totaux.
RECURSIVE Boucle3a_VersementsRemis(_, _, _, _)
Boucle3a_VersementsRemis(self, annee_retrait, taux_mensuel, annee) ==
    IF annee <= 0
    THEN [ capital |-> 0, versements_totaux |-> 0, detail |-> <<>> ]
    ELSE LET apres == Annee3a(self, annee_retrait, taux_mensuel,
                        Boucle3a_VersementsRemis(self, annee_retrait, taux_mensuel,
                                                 annee - 1),
                        annee)
         IN  [ detail |-> apres.detail,
               capital |-> apres.capital,
               versements_totaux |->
                 IF EstAnneeRetrait(annee_retrait, annee) THEN 0
                 ELSE apres.versements_totaux ]

\* calculer_3a, the years 1..annee of the loop.
RECURSIVE Boucle3a(_, _, _, _)
Boucle3a(self, annee_retrait, taux_mensuel, annee) ==
    IF annee <= 0
    THEN [ capital |-> 0, versements_totaux |-> 0, detail |-> <<>> ]
    ELSE Annee3a(self, annee_retrait, taux_mensuel,
                 Boucle3a(self, annee_retrait, taux_mensuel, annee - 1), annee)

\* Variant of calculer_3a whose returned capital ignores the withdrawal.
calculer_3a_CapitalSansRetrait(self, annee_retrait) ==
    LET taux_mensuel == Racine12(RateScale + self.rendement_3a) - RateScale
        boucle == Boucle3a(self, annee_retrait, taux_mensuel, self.annees)
    IN  [ detail |-> boucle.detail,
          capital |-> Boucle3a(self, NONE, taux_mensuel, self.annees).capital,
          versements_totaux |-> boucle.versements_totaux ]

\* calculer_3a: [capital, versements_totaux, detail].
calculer_3a(self, annee_retrait) ==
    Boucle3a(self, annee_retrait,
             Racine12(RateScale + self.rendement_3a) - RateScale, self.annees)

\* Variant of AnneeSp500 with the withdrawal reset of calculer_3a copied into
\* calculer_sp500.
AnneeSp500_AvecRetrait(self, annee_retrait, taux_mensuel, avant, annee) ==
    LET age == AgeAtteint(self, annee)
        mois == MoisEpargne([ capital |-> avant.capital,
                              versements_totaux |-> avant.versements_totaux ],
                            taux_mensuel, self.montant_mensuel_sp500, Mois)
        capital == IF EstAnneeRetrait(annee_retrait, annee) THEN 0 ELSE mois.capital
    IN  [ detail |-> Append(avant.detail,
            [ annee |-> annee,
              age |-> age,
              capital_sp500 |-> capital,
              versements_annee |-> self.montant_mensuel_sp500 * 12 ]),
          capital |-> capital,
          versements_totaux |-> mois.versements_totaux ]

\* calculer_sp500, one pass of the loop over the years.  annee_retrait is a
\* parameter of the method and is never read.
AnneeSp500(self, annee_retrait, taux_mensuel, avant, annee) ==
    LET age == AgeAtteint(self, annee)
        mois == MoisEpargne([ capital |-> avant.capital,
                              versements_totaux |-> avant.versements_totaux ],
                            taux_mensuel, self.montant_mensuel_sp500, Mois)
    IN  [ detail |-> Append(avant.detail,
            [ annee |-> annee,
              age |-> age,
              capital_sp500 |-> mois.capital,
              versements_annee |-> self.montant_mensuel_sp500 * 12 ]),
          capital |-> mois.capital,
          versements_totaux |-> mois.versements_totaux ]

\* calculer_sp500, the years 1..annee of the loop.
RECURSIVE BoucleSp500(_, _, _, _)
BoucleSp500(self, annee_retrait, taux_mensuel, annee) ==
    IF annee <= 0
    THEN [ capital |-> 0, versements_totaux |-> 0, detail |-> <<>> ]
    ELSE AnneeSp500(self, annee_retrait, taux_mensuel,
                    BoucleSp500(self, annee_retrait, taux_mensuel, annee - 1), annee)

\* calculer_sp500: [capital, versements_totaux, detail].
calculer_sp500(self, annee_retrait) ==
    BoucleSp500(self, annee_retrait,
                Racine12(RateScale + self.rendement_sp500_net) - RateScale,
                self.annees)

\* Variant of MoisLpp that multiplies by the monthly rate instead of 1 + the
\* monthly rate.
RECURSIVE MoisLpp_SansUnPlus(_, _, _, _)
MoisLpp_SansUnPlus(capital, rendement_lpp_mensuel, cotisation_mensuelle_totale, n) ==
    IF n = 0 THEN capital
    ELSE MulRate(MoisLpp_SansUnPlus(capital, rendement_lpp_mensuel,
                                    cotisation_mensuelle_totale, n - 1),
                 rendement_lpp_mensuel)
           + cotisation_mensuelle_totale

\* The inner loop "for _ in range(12)" of calculer_lpp, n months of it:
\* capital = capital * (1 + rendement_lpp_mensuel), then
\* capital += cotisation_mensuelle_totale.
RECURSIVE MoisLpp(_, _, _, _)
MoisLpp(capital, rendement_lpp_mensuel, cotisation_mensuelle_totale, n) ==
    IF n = 0 THEN capital
    ELSE MulRate(MoisLpp(capital, rendement_lpp_mensuel,
                         cotisation_mensuelle_totale, n - 1),
                 RateScale + rendement_lpp_mensuel)
           + cotisation_mensuelle_totale

\* calculer_lpp, one pass of "for annee in range(1, self.annees + 1)".
AnneeLpp(self, annee_retrait, avant, annee) ==
    LET age == AgeAtteint(self, annee)
        salaire_annee ==
          MulRate(self.salaire_brut_initial,
                  PowRate(RateScale + self.evolution_salaire, annee))
        salaire_coordonne == Max(0, salaire_annee - self.montant_coordination)
        salaire_assure ==
          IF self.couvrir_surobligatoire THEN salaire_coordonne
          ELSE Min(salaire_coordonne, self.salaire_coordonne_max)
        taux_employe == _taux_palier(age, self.taux_employe_lpp_paliers)
        taux_employeur == _taux_palier(age, self.taux_employeur_lpp_paliers)
        cotisation_employe_annuelle == MulRate(salaire_assure, taux_employe)
        cotisation_employeur_annuelle == MulRate(salaire_assure, taux_employeur)
        cotisation_annuelle ==
          cotisation_employe_annuelle + cotisation_employeur_annuelle
        cotisation_mensuelle_totale == cotisation_annuelle \div 12
        mois == MoisLpp(avant.capital, self.rendement_lpp_mensuel,
                        cotisation_mensuelle_totale, Mois)
        retrait == EstAnneeRetrait(annee_retrait, annee)
        capital == IF retrait THEN 0 ELSE mois
    IN  [ detail |-> Append(avant.detail,
            [ annee |-> annee,
              age |-> age,
              salaire_brut |-> salaire_annee,
              salaire_coordonne |-> salaire_assure,
              taux_employe |-> Pct(taux_employe),
              taux_employeur |-> Pct(taux_employeur),
              taux_total |-> Pct(taux_employe + taux_employeur),
              cotisation_employe |-> cotisation_employe_annuelle,
              cotisation_employeur |-> cotisation_employeur_annuelle,
              cotisation_totale |-> cotisation_annuelle,
              capital_lpp |-> capital,
              retrait_immobilier |-> IF retrait THEN Some(mois) ELSE NONE ]),
          capital |-> capital,
          cotisations_totales |-> avant.cotisations_totales + cotisation_annuelle,
          cotisations_employe_totales |->
            avant.cotisations_employe_totales + cotisation_employe_annuelle,
          cotisations_employeur_totales |->
            avant.cotisations_employeur_totales + cotisation_employeur_annuelle ]

\* Variant of BoucleLpp in which the withdrawal also resets the contribution
\* totals.
RECURSIVE BoucleLpp_TotauxRemis(_, _, _)
BoucleLpp_TotauxRemis(self, annee_retrait, annee) ==
    IF annee <= 0
    THEN [ capital |-> self.lpp_capital_initial,
           cotisations_totales |-> 0,
           cotisations_employe_totales |-> 0,
           cotisations_employeur_totales |-> 0,
           detail |-> <<>> ]
    ELSE LET apres == AnneeLpp(self, annee_retrait,
                        BoucleLpp_TotauxRemis(self, annee_retrait, annee - 1), annee)
         IN  IF EstAnneeRetrait(annee_retrait, annee)
             THEN [ detail |-> apres.detail,
                    capital |-> apres.capital,
                    cotisations_totales |-> 0,
                    cotisations_employe_totales |-> 0,
                    cotisations_employeur_totales |-> 0 ]
             ELSE apres

\* calculer_lpp, the years 1..annee of the loop.
RECURSIVE BoucleLpp(_, _, _)
BoucleLpp(self, annee_retrait, annee) ==
    IF annee <= 0
    THEN [ capital |-> self.lpp_capital_initial,
           cotisations_totales |-> 0,
           cotisations_employe_totales |-> 0,
           cotisations_employeur_totales |-> 0,
           detail |-> <<>> ]
    ELSE AnneeLpp(self, annee_retrait,
                  BoucleLpp(self, annee_retrait, annee - 1), annee)

\* Variant of calculer_lpp that returns no capital when no year is simulated.
calculer_lpp_HorizonNul(self, annee_retrait) ==
    LET boucle == BoucleLpp(self, annee_retrait, self.annees)
    IN  IF self.annees <= 0
        THEN [ detail |-> boucle.detail,
               capital |-> 0,
               cotisations_totales |-> boucle.cotisations_totales,
               cotisations_employe_totales |-> boucle.cotisations_employe_totales,
               cotisations_employeur_totales |-> boucle.cotisations_employeur_totales ]
        ELSE boucle

\* calculer_lpp: [capital, cotisations_totales, cotisations_employe_totales,
\* cotisations_employeur_totales, detail].
calculer_lpp(self, annee_retrait) ==
    BoucleLpp(self, annee_retrait, self.annees)

\* Variant of ajuster_inflation with simple instead of compound inflation.
ajuster_inflation_Lineaire(self, montant) ==
    DivRate(montant, RateScale + self.inflation * self.annees)

\* ajuster_inflation: a nominal amount in real purchasing power.
ajuster_inflation(self, montant) ==
    LET facteur_erosion == PowRate(RateScale + self.inflation, self.annees)
    IN  DivRate(montant, facteur_erosion)

\* sum(filter(None, valeurs)): the sum of the values that are neither None
\* nor 0.
RECURSIVE SumFilterNone(_)
SumFilterNone(valeurs) ==
    IF valeurs = <<>> THEN 0
    ELSE LET v == Head(valeurs)
         IN  (IF v # NONE /\ v[1] # 0 THEN v[1] ELSE 0)
               + SumFilterNone(Tail(valeurs))

\* Variant of RetraitsAnnee that also withdraws the indexed investment.
RetraitsAnnee_AvecSp500(detail_3a, detail_sp500, detail_lpp, i) ==
    <<detail_3a[i + 1].retrait_immobilier, detail_lpp[i + 1].retrait_immobilier,
      Some(detail_sp500[i + 1].capital_sp500)>>

\* calculer, the list [retrait_3a, retrait_lpp] of pass i of its loop.
RetraitsAnnee(detail_3a, detail_sp500, detail_lpp, i) ==
    LET retrait_3a == detail_3a[i + 1].retrait_immobilier
        retrait_lpp == detail_lpp[i + 1].retrait_immobilier
    IN  <<retrait_3a, retrait_lpp>>

\* Variant of AnneeCalculer whose capital_total counts the withdrawn amount.
AnneeCalculer_TotalAvecRetrait(detail_3a, detail_sp500, detail_lpp, annee_retrait, avant, i) ==
    LET retrait == annee_retrait # NONE /\ i + 1 = annee_retrait[1]
        montant_retrait_immo ==
          IF retrait
          THEN SumFilterNone(RetraitsAnnee(detail_3a, detail_sp500, detail_lpp, i))
          ELSE avant.montant_retrait_immo
        entree ==
          [ capital_3a |-> detail_3a[i + 1].capital_3a,
            capital_sp500 |-> detail_sp500[i + 1].capital_sp500,
            capital_total |-> detail_lpp[i + 1].capital_lpp
                                + detail_3a[i + 1].capital_3a
                                + detail_sp500[i + 1].capital_sp500
                                + (IF retrait THEN montant_retrait_immo ELSE 0) ]
            @@ detail_lpp[i + 1]
    IN  [ detail_annuel |-> Append(avant.detail_annuel,
            IF retrait
            THEN [ retrait_immo_total |-> montant_retrait_immo ] @@ entree
            ELSE entree),
          montant_retrait_immo |-> montant_retrait_immo ]

\* Variant of AnneeCalculer that writes retrait_immo_total in every record.
AnneeCalculer_ToujoursTotal(detail_3a, detail_sp500, detail_lpp, annee_retrait, avant, i) ==
    LET retrait == annee_retrait # NONE /\ i + 1 = annee_retrait[1]
        montant_retrait_immo ==
          IF retrait
          THEN SumFilterNone(RetraitsAnnee(detail_3a, detail_sp500, detail_lpp, i))
          ELSE avant.montant_retrait_immo
        entree ==
          [ capital_3a |-> detail_3a[i + 1].capital_3a,
            capital_sp500 |-> detail_sp500[i + 1].capital_sp500,
            capital_total |-> detail_lpp[i + 1].capital_lpp
                                + detail_3a[i + 1].capital_3a
                                + detail_sp500[i + 1].capital_sp500 ]
            @@ detail_lpp[i + 1]
    IN  [ detail_annuel |-> Append(avant.detail_annuel,
            [ retrait_immo_total |-> montant_retrait_immo ] @@ entree),
          montant_retrait_immo |-> montant_retrait_immo ]

\* calculer, one pass of "for i in range(self.annees)" (i counts from 0; the
\* sequences of the model count from 1): from the locals [detail_annuel,
\* montant_retrait_immo] before the pass to those after.
AnneeCalculer(detail_3a, detail_sp500, detail_lpp, annee_retrait, avant, i) ==
    LET retrait == annee_retrait # NONE /\ i + 1 = annee_retrait[1]
        montant_retrait_immo ==
          IF retrait
          THEN SumFilterNone(RetraitsAnnee(detail_3a, detail_sp500, detail_lpp, i))
          ELSE avant.montant_retrait_immo
        entree ==
          [ capital_3a |-> detail_3a[i + 1].capital_3a,
            capital_sp500 |-> detail_sp500[i + 1].capital_sp500,
            capital_total |-> detail_lpp[i + 1].capital_lpp
                                + detail_3a[i + 1].capital_3a
                                + detail_sp500[i + 1].capital_sp500 ]
            @@ detail_lpp[i + 1]
    IN  [ detail_annuel |-> Append(avant.detail_annuel,
            IF retrait
            THEN [ retrait_immo_total |-> montant_retrait_immo ] @@ entree
            ELSE entree),
          montant_retrait_immo |-> montant_retrait_immo ]

\* calculer, the passes i = 0..n-1 of the loop.
RECURSIVE BoucleCalculer(_, _, _, _, _)
BoucleCalculer(detail_3a, detail_sp500, detail_lpp, annee_retrait, n) ==
    IF n <= 0
    THEN [ detail_annuel |-> <<>>, montant_retrait_immo |-> 0 ]
    ELSE AnneeCalculer(detail_3a, detail_sp500, detail_lpp, annee_retrait,
           BoucleCalculer(detail_3a, detail_sp500, detail_lpp, annee_retrait, n - 1),
           n - 1)

\* calculer: the ResultatPrevoyance returned.
calculer(self, annee_retrait) ==
    LET r3a == calculer_3a(self, annee_retrait)
        rsp500 == calculer_sp500(self, annee_retrait)
        rlpp == calculer_lpp(self, annee_retrait)
        capital_3a == r3a.capital
        capital_sp500 == rsp500.capital
        capital_lpp == rlpp.capital
        capital_total_nominal == capital_3a + capital_sp500 + capital_lpp
        capital_3a_reel == ajuster_inflation(self, capital_3a)
        capital_sp500_reel == ajuster_inflation(self, capital_sp500)
        capital_lpp_reel == ajuster_inflation(self, capital_lpp)
        capital_total_reel == capital_3a_reel + capital_sp500_reel + capital_lpp_reel
        boucle == BoucleCalculer(r3a.detail, rsp500.detail, rlpp.detail,
                                 annee_retrait, self.annees)
    IN  [ capital_3a_nominal |-> capital_3a,
          capital_sp500_nominal |-> capital_sp500,
          capital_lpp_nominal |-> capital_lpp,
          capital_total_nominal |-> capital_total_nominal,
          capital_3a_reel |-> capital_3a_reel,
          capital_sp500_reel |-> capital_sp500_reel,
          capital_lpp_reel |-> capital_lpp_reel,
          capital_total_reel |-> capital_total_reel,
          versements_totaux_3a |-> r3a.versements_totaux,
          versements_totaux_sp500 |-> rsp500.versements_totaux,
          cotisations_totales_lpp |-> rlpp.cotisations_totales,
          cotisations_employe_lpp |-> rlpp.cotisations_employe_totales,
          cotisations_employeur_lpp |-> rlpp.cotisations_employeur_totales,
          detail_annuel |-> boucle.detail_annuel,
          annee_retrait |-> annee_retrait,
          montant_retrait_immo |-> boucle.montant_retrait_immo ]

(***************************************************************************)
(* Parameter sets.                                                         *)
(***************************************************************************)

\* defaults_main["taux_emp_paliers"] and ["taux_empres_paliers"] of app.py.
TauxEmpPaliersDefaut ==
    [ moins_30 |-> 70, t30_39 |-> 100, t40_49 |-> 150, t50_plus |-> 180 ]

TauxEmpresPaliersDefaut ==
    [ moins_30 |-> 80, t30_39 |-> 110, t40_49 |-> 160, t50_plus |-> 190 ]

\* defaults_main of collecter_parametres: salary and occupational scheme.
DefautsLpp ==
    [ salaire_brut_initial |-> 78000, montant_coordination |-> 25725,
        salaire_coordonne_max |-> 88200, couvrir_surobligatoire |-> FALSE,
        lpp_capital_initial |-> 2000, rendement_lpp |-> 25,
        evolution_salaire_annuel |-> 20,
        taux_cotisation_employe_lpp_paliers |-> TauxEmpPaliersDefaut,
        taux_cotisation_employeur_lpp_paliers |-> TauxEmpresPaliersDefaut ]

\* Salary and occupational-scheme parameters: the defaults of the form; a
\* coordination deduction above the salary with no capital; a salary above the
\* ceiling with rate tables that leave bands to the constructor's defaults; a
\* falling salary above the ceiling with supplementary coverage.
ProfilsLpp ==
    { DefautsLpp,
      [ salaire_brut_initial |-> 30000, montant_coordination |-> 40000,
        salaire_coordonne_max |-> 88200, couvrir_surobligatoire |-> FALSE,
        lpp_capital_initial |-> 0, rendement_lpp |-> 0,
        evolution_salaire_annuel |-> 50,
        taux_cotisation_employe_lpp_paliers |-> TauxEmpPaliersDefaut,
        taux_cotisation_employeur_lpp_paliers |-> TauxEmpresPaliersDefaut ],
      [ salaire_brut_initial |-> 200000, montant_coordination |-> 25725,
        salaire_coordonne_max |-> 88200, couvrir_surobligatoire |-> FALSE,
        lpp_capital_initial |-> 50000, rendement_lpp |-> 10,
        evolution_salaire_annuel |-> 0,
        taux_cotisation_employe_lpp_paliers |-> [ moins_30 |-> 40, t40_49 |-> 60 ],
        taux_cotisation_employeur_lpp_paliers |-> [ t30_39 |-> 50, t50_plus |-> 220 ] ],
      [ salaire_brut_initial |-> 200000, montant_coordination |-> 0,
        salaire_coordonne_max |-> 88200, couvrir_surobligatoire |-> TRUE,
        lpp_capital_initial |-> 0, rendement_lpp |-> 30,
        evolution_salaire_annuel |-> 0 - 20,
        taux_cotisation_employe_lpp_paliers |-> TauxEmpPaliersDefaut,
        taux_cotisation_employeur_lpp_paliers |-> TauxEmpresPaliersDefaut ] }

\* defaults_main of collecter_parametres: savings, investment, inflation.
DefautsEpargne ==
    [ montant_mensuel_3a |-> 250, rendement_3a |-> 20,
        montant_mensuel_sp500 |-> 250, rendement_sp500 |-> 80,
        taux_dividendes_sp500 |-> 20, taux_imposition_dividendes |-> 250,
        inflation_annuelle |-> 20 ]

\* Savings, investment and inflation parameters: the defaults of the form; no
\* contribution and no inflation; the upper ends of the form's ranges.
ProfilsEpargne ==
    { DefautsEpargne,
      [ montant_mensuel_3a |-> 0, rendement_3a |-> 10,
        montant_mensuel_sp500 |-> 0, rendement_sp500 |-> 40,
        taux_dividendes_sp500 |-> 10, taux_imposition_dividendes |-> 0,
        inflation_annuelle |-> 0 ],
      [ montant_mensuel_3a |-> 600, rendement_3a |-> 40,
        montant_mensuel_sp500 |-> 2000, rendement_sp500 |-> 120,
        taux_dividendes_sp500 |-> 30, taux_imposition_dividendes |-> 400,
        inflation_annuelle |-> 40 ] }

\* Current ages one year below a band threshold less one, so that the attained
\* ages age_depart + 1 .. age_depart + horizon cross 30, 40 and 50.
AgesDepart == { 28, 38, 48 }

\* The keyword arguments of CalculateurPrevoyance(**params).
Params(age_depart, age_retraite, lpp, epargne) ==
    [ age_depart |-> age_depart, age_retraite |-> age_retraite ] @@ lpp @@ epargne

\* Parameter sets handed to the engine directly: every horizon 0..MaxHorizon.
ParamsMoteur ==
    { Params(a, a + h, lpp, ep) :
        a \in AgesDepart, h \in 0..MaxHorizon, lpp \in ProfilsLpp, ep \in ProfilsEpargne }

\* Withdrawal-year arguments: absent, or an integer inside or outside 1..horizon.
ArgsRetrait == { NONE } \cup { Some(w) : w \in (0 - 1)..(MaxHorizon + 1) }

(***************************************************************************)
(* State.                                                                  *)
(***************************************************************************)
VARIABLES
    \* One calculator called directly:
    params,                  \* the arguments its constructor was given
    calculateur,             \* its fields (self)
    resultat,                \* what its last calculer call returned, or NONE
    nb_appels,               \* how many calculer calls it has served
    \* main() of app.py, one run of the script:
    pc,                      \* the position of the run in main()
    params_principal,        \* collecter_parametres()[0]
    couple_mode,             \* collecter_parametres()[1]
    params_partenaire,       \* collecter_parametres()[2]
    calculateur_principal,   \* NONE until constructed
    calculateur_partenaire,
    resultat_principal,      \* NONE until computed
    resultat_partenaire,
    erreurs,                 \* the st.error / st.warning messages shown so far
    scenario_immo,           \* the scenario checkbox
    annee_retrait,           \* the scenario slider, NONE until read
    resultat_principal_immo,
    resultat_partenaire_immo

varsMoteur == <<params, calculateur, resultat, nb_appels>>

varsApp ==
    <<pc, params_principal, couple_mode, params_partenaire,
      calculateur_principal, calculateur_partenaire, resultat_principal,
      resultat_partenaire, erreurs, scenario_immo, annee_retrait,
      resultat_principal_immo, resultat_partenaire_immo>>

vars == <<varsMoteur, varsApp>>

\* The script is not running.
AppArret ==
    /\ pc = "arret"
    /\ params_principal = NONE
    /\ couple_mode = FALSE
    /\ params_partenaire = NONE
    /\ calculateur_principal = NONE
    /\ calculateur_partenaire = NONE
    /\ resultat_principal = NONE
    /\ resultat_partenaire = NONE
    /\ erreurs = <<>>
    /\ scenario_immo = FALSE
    /\ annee_retrait = NONE
    /\ resultat_principal_immo = NONE
    /\ resultat_partenaire_immo = NONE

\* No calculator is called directly.
MoteurArret ==
    /\ params = NONE
    /\ calculateur = NONE
    /\ resultat = NONE
    /\ nb_appels = 0

(***************************************************************************)
(* The engine called directly: one calculator, any calls of calculer.      *)
(***************************************************************************)

\* A calculator constructed from any parameter set, not yet called.
Init ==
    /\ params \in ParamsMoteur
    /\ calculateur = CalculateurPrevoyance(params)
    /\ resultat = NONE
    /\ nb_appels = 0
    /\ AppArret

\* Variant of Calculer in which calculer_lpp accumulates in the field
\* self.lpp_capital_initial instead of a local.
Calculer_MemoriseCapital(w) ==
    /\ nb_appels < MaxAppels
    /\ resultat' = Some(calculer(calculateur, w))
    /\ calculateur' =
         [ calculateur EXCEPT !.lpp_capital_initial = resultat'[1].capital_lpp_nominal ]
    /\ nb_appels' = nb_appels + 1
    /\ UNCHANGED params
    /\ UNCHANGED varsApp

\* calculateur.calculer(annee_retrait=w): the method assigns to locals only,
\* no field of self changes.
Calculer(w) ==
    /\ nb_appels < MaxAppels
    /\ resultat' = Some(calculer(calculateur, w))
    /\ nb_appels' = nb_appels + 1
    /\ UNCHANGED <<params, calculateur>>
    /\ UNCHANGED varsApp

Next == \E w \in ArgsRetrait : Calculer(w)

Spec == Init /\ [][Next]_vars

(***************************************************************************)
(* Properties of the engine called directly (specification Spec).          *)
(***************************************************************************)

\* The result of the last call.
Res == resultat[1]

\* retirement age - current age, from the constructor's arguments.
Horizon == params.age_retraite - params.age_depart

\* The last call was given a withdrawal year inside 1..horizon.
RetraitDansHorizon ==
    /\ resultat # NONE
    /\ Res.annee_retrait # NONE
    /\ Res.annee_retrait[1] \in 1..Horizon

\* C1: for every valid parameter set (age_retraite > age_depart) and every
\* withdrawal-year argument, absent or any integer, calculer returns exactly
\* age_retraite - age_depart yearly records, in order, the i-th with annee = i
\* and age = age_depart + i.
C1_DetailAnnuel ==
    (resultat # NONE /\ params.age_retraite > params.age_depart) =>
        /\ Len(Res.detail_annuel) = Horizon
        /\ \A i \in 1..Horizon :
             /\ Res.detail_annuel[i].annee = i
             /\ Res.detail_annuel[i].age = params.age_depart + i

\* A call with a withdrawal year has returned at least two records.
C1_Witness ==
    /\ resultat # NONE
    /\ Horizon >= 2
    /\ Res.annee_retrait # NONE
    /\ Len(Res.detail_annuel) = Horizon

LppAvant(y) ==
    IF y = 1 THEN calculateur.lpp_capital_initial
    ELSE Res.detail_annuel[y - 1].capital_lpp

\* What the fixed-point rounding of one simulated year can move an occupational
\* capital by: one unit per monthly operation, and 1/500 for the truncated
\* twelfth root of the annual rate.
ArrondiLpp(montant) == 2 * Mois + montant \div 500

\* C4: the occupational capital is compounded once per simulation year, not
\* monthly: for every year y other than a withdrawal year, capital after year y
\* = capital before year y * (1 + annual net rate) + the annual contribution of
\* year y as one lump sum (up to the rounding of the arithmetic).
C4_CapitalisationAnnuelle ==
    resultat # NONE =>
        \A y \in 1..Len(Res.detail_annuel) :
            (Res.detail_annuel[y].retrait_immobilier = NONE) =>
                Abs(Res.detail_annuel[y].capital_lpp
                      - (MulRate(LppAvant(y), RateScale + calculateur.rendement_lpp)
                           + Res.detail_annuel[y].cotisation_totale))
                  <= ArrondiLpp(LppAvant(y) + Res.detail_annuel[y].cotisation_totale)

\* C5: with the withdrawal year equal to the horizon, the final record has
\* capital_lpp = 0 and capital_3a = 0 and its capital_total is its
\* capital_sp500; the withdrawal amount is still reported, in that record and in
\* montant_retrait_immo, and is what the run without withdrawal ends with in the
\* two schemes; the final capital_lpp_nominal and capital_3a_nominal are 0.
C5_RetraitDerniereAnnee ==
    (RetraitDansHorizon /\ Res.annee_retrait[1] = Horizon) =>
        LET fin == Res.detail_annuel[Horizon]
            base == calculer(calculateur, NONE)
        IN  /\ fin.capital_lpp = 0
            /\ fin.capital_3a = 0
            /\ fin.capital_total = fin.capital_sp500
            /\ "retrait_immo_total" \in DOMAIN fin
            /\ fin.retrait_immo_total = Res.montant_retrait_immo
            /\ Res.montant_retrait_immo
                 = base.capital_lpp_nominal + base.capital_3a_nominal
            /\ Res.capital_lpp_nominal = 0
            /\ Res.capital_3a_nominal = 0

\* A withdrawal in the last year has reported a positive amount while the
\* indexed investment is positive.
C5_Witness ==
    /\ RetraitDansHorizon
    /\ Res.annee_retrait[1] = Horizon
    /\ Horizon >= 2
    /\ Res.montant_retrait_immo > 0
    /\ Res.capital_sp500_nominal > 0
    /\ Res.capital_total_nominal = Res.capital_sp500_nominal

\* Contributions >= 0, initial occupational capital >= 0, every net rate >= 0.
SansValeurNegative ==
    /\ calculateur.montant_mensuel_3a >= 0
    /\ calculateur.montant_mensuel_sp500 >= 0
    /\ calculateur.lpp_capital_initial >= 0
    /\ calculateur.salaire_coordonne_max >= 0
    /\ \A b \in DOMAIN calculateur.taux_employe_lpp_paliers :
         /\ calculateur.taux_employe_lpp_paliers[b] >= 0
         /\ calculateur.taux_employeur_lpp_paliers[b] >= 0
    /\ calculateur.rendement_3a >= 0
    /\ calculateur.rendement_sp500_net >= 0
    /\ calculateur.rendement_lpp >= 0

\* C6: absent a withdrawal, with contributions >= 0, initial occupational
\* capital >= 0 and every net rate >= 0, capital_lpp, capital_3a, capital_sp500
\* and capital_total never decrease from one yearly record to the next.
C6_Croissance ==
    (resultat # NONE /\ Res.annee_retrait = NONE /\ SansValeurNegative) =>
        \A y \in 2..Len(Res.detail_annuel) :
            /\ Res.detail_annuel[y].capital_lpp >= Res.detail_annuel[y - 1].capital_lpp
            /\ Res.detail_annuel[y].capital_3a >= Res.detail_annuel[y - 1].capital_3a
            /\ Res.detail_annuel[y].capital_sp500
                 >= Res.detail_annuel[y - 1].capital_sp500
            /\ Res.detail_annuel[y].capital_total
                 >= Res.detail_annuel[y - 1].capital_total

\* A run without withdrawal in which the yearly contribution falls from one
\* year to the next (falling salary inside one age band) and the occupational
\* capital still grows.
C6_Witness ==
    /\ resultat # NONE
    /\ Res.annee_retrait = NONE
    /\ SansValeurNegative
    /\ \E y \in 2..Len(Res.detail_annuel) :
         /\ Res.detail_annuel[y].cotisation_totale
              < Res.detail_annuel[y - 1].cotisation_totale
         /\ Res.detail_annuel[y].capital_lpp > Res.detail_annuel[y - 1].capital_lpp

\* (1 + inflation) ** horizon, from the constructor's arguments.
FacteurHorizon == PowRate(RateScale + Frac(params.inflation_annuelle), Horizon)

Paliers == { "moins_30", "t30_39", "t40_49", "t50_plus" }

DansPalier(age, palier) ==
    CASE palier = "moins_30" -> age <= 29
      [] palier = "t30_39" -> age >= 30 /\ age <= 39
      [] palier = "t40_49" -> age >= 40 /\ age <= 49
      [] palier = "t50_plus" -> age >= 50

\* C8: every attained age is in exactly one band (age <= 29: moins_30, 30..39:
\* 30_39, 40..49: 40_49, age >= 50: 50_plus); the employee and the employer
\* table are each looked up with the attained age age_depart + y, and the rates
\* recorded for year y are those of that band in each table.
C8_Paliers ==
    resultat # NONE =>
        \A y \in 1..Len(Res.detail_annuel) :
            LET age == params.age_depart + y
            IN  /\ Cardinality({ b \in Paliers : DansPalier(age, b) }) = 1
                /\ \A b \in Paliers :
                     DansPalier(age, b) =>
                       /\ Res.detail_annuel[y].taux_employe
                            = Pct(calculateur.taux_employe_lpp_paliers[b])
                       /\ Res.detail_annuel[y].taux_employeur
                            = Pct(calculateur.taux_employeur_lpp_paliers[b])
                       /\ Res.detail_annuel[y].taux_total
                            = Pct(calculateur.taux_employe_lpp_paliers[b]
                                    + calculateur.taux_employeur_lpp_paliers[b])

\* A result whose records cross a threshold: the last age of a band, then the
\* threshold age with the rates of the next band, the employee and employer
\* rates differing.
C8_Witness ==
    /\ resultat # NONE
    /\ \E y \in 2..Len(Res.detail_annuel) :
         /\ Res.detail_annuel[y].age \in { 30, 40, 50 }
         /\ Res.detail_annuel[y].taux_employe # Res.detail_annuel[y - 1].taux_employe
         /\ Res.detail_annuel[y].taux_employeur
              # Res.detail_annuel[y - 1].taux_employeur
         /\ Res.detail_annuel[y].taux_employe # Res.detail_annuel[y].taux_employeur

\* C9: the engine is stateless and reentrant: calculer changes no field of the
\* calculator, and after any sequence of calls with any withdrawal-year
\* arguments the result of the last call is that of a first call with the same
\* argument on a calculator freshly built from the same parameters.
C9_SansEtat ==
    /\ calculateur = CalculateurPrevoyance(params)
    /\ resultat # NONE =>
         Res = calculer(CalculateurPrevoyance(params), Res.annee_retrait)

\* A second call, or a later one, with a withdrawal inside the horizon has
\* returned on a calculator with a positive initial occupational capital.
C9_Witness ==
    /\ nb_appels >= 2
    /\ RetraitDansHorizon
    /\ params.lpp_capital_initial > 0
    /\ Res.montant_retrait_immo > 0

(***************************************************************************)
(* main() of app.py: one run of the script, statement by statement.        *)
(***************************************************************************)

\* What collecter_parametres can return.  The bound min_value = age_depart + 1
\* of the retirement-age input is enforced by the widget library, outside this
\* code; main() checks the ages again, and the form of the model returns
\* retirement ages below, at and above the current age.
HorizonsApp == (0 - 1)..MaxHorizon

\* defaults_main["age_depart"] and defaults_partner["age_depart"].
AgeDepartPrincipal == 40

AgeDepartPartenaire == 38

ParamsPrincipal ==
    { Params(AgeDepartPrincipal, AgeDepartPrincipal + h, DefautsLpp, DefautsEpargne) :
        h \in HorizonsApp }

ParamsPartenaire ==
    { Params(AgeDepartPartenaire, AgeDepartPartenaire + h, DefautsLpp, DefautsEpargne) :
        h \in HorizonsApp }

\* The script starts: nothing collected, nothing computed, nothing shown.
InitApp ==
    /\ pc = "debut"
    /\ params_principal = NONE
    /\ couple_mode = FALSE
    /\ params_partenaire = NONE
    /\ calculateur_principal = NONE
    /\ calculateur_partenaire = NONE
    /\ resultat_principal = NONE
    /\ resultat_partenaire = NONE
    /\ erreurs = <<>>
    /\ scenario_immo = FALSE
    /\ annee_retrait = NONE
    /\ resultat_principal_immo = NONE
    /\ resultat_partenaire_immo = NONE
    /\ MoteurArret

\* params_principal, couple_mode, params_partenaire = collecter_parametres():
\* the partner's parameters are collected only in couple mode.
CollecterParametres ==
    /\ pc = "debut"
    /\ \E p \in ParamsPrincipal : params_principal' = Some(p)
    /\ \E c \in BOOLEAN :
         /\ couple_mode' = c
         /\ IF c
            THEN \E q \in ParamsPartenaire : params_partenaire' = Some(q)
            ELSE params_partenaire' = NONE
    /\ pc' = "valider_principal"
    /\ UNCHANGED <<calculateur_principal, calculateur_partenaire, resultat_principal,
                   resultat_partenaire, erreurs, scenario_immo, annee_retrait,
                   resultat_principal_immo, resultat_partenaire_immo>>
    /\ UNCHANGED varsMoteur

\* Variant of ValiderPrincipal that accepts equal ages.
ValiderPrincipal_AgesEgaux ==
    /\ pc = "valider_principal"
    /\ IF params_principal[1].age_retraite < params_principal[1].age_depart
       THEN /\ erreurs' = Append(erreurs, "age_principal")
            /\ pc' = "fin"
       ELSE /\ erreurs' = erreurs
            /\ pc' = "calcul_principal"
    /\ UNCHANGED <<params_principal, couple_mode, params_partenaire,
                   calculateur_principal, calculateur_partenaire, resultat_principal,
                   resultat_partenaire, scenario_immo, annee_retrait,
                   resultat_principal_immo, resultat_partenaire_immo>>
    /\ UNCHANGED varsMoteur

\* if params_principal["age_retraite"] <= params_principal["age_depart"]:
\*     st.error(...); return
ValiderPrincipal ==
    /\ pc = "valider_principal"
    /\ IF params_principal[1].age_retraite <= params_principal[1].age_depart
       THEN /\ erreurs' = Append(erreurs, "age_principal")
            /\ pc' = "fin"
       ELSE /\ erreurs' = erreurs
            /\ pc' = "calcul_principal"
    /\ UNCHANGED <<params_principal, couple_mode, params_partenaire,
                   calculateur_principal, calculateur_partenaire, resultat_principal,
                   resultat_partenaire, scenario_immo, annee_retrait,
                   resultat_principal_immo, resultat_partenaire_immo>>
    /\ UNCHANGED varsMoteur

\* calculateur_principal = CalculateurPrevoyance(**params_principal)
\* resultat_principal = calculateur_principal.calculer()
CalculPrincipal ==
    /\ pc = "calcul_principal"
    /\ calculateur_principal' = Some(CalculateurPrevoyance(params_principal[1]))
    /\ resultat_principal' = Some(calculer(calculateur_principal'[1], NONE))
    /\ pc' = "valider_partenaire"
    /\ UNCHANGED <<params_principal, couple_mode, params_partenaire,
                   calculateur_partenaire, resultat_partenaire, erreurs,
                   scenario_immo, annee_retrait, resultat_principal_immo,
                   resultat_partenaire_immo>>
    /\ UNCHANGED varsMoteur

\* if couple_mode and params_partenaire is not None:
\*     if params_partenaire["age_retraite"] <= params_partenaire["age_depart"]:
\*         st.error(...); return
ValiderPartenaire ==
    /\ pc = "valider_partenaire"
    /\ IF couple_mode /\ params_partenaire # NONE
       THEN IF params_partenaire[1].age_retraite <= params_partenaire[1].age_depart
            THEN /\ erreurs' = Append(erreurs, "age_partenaire")
                 /\ pc' = "fin"
            ELSE /\ erreurs' = erreurs
                 /\ pc' = "calcul_partenaire"
       ELSE /\ erreurs' = erreurs
            /\ pc' = "resultats"
    /\ UNCHANGED <<params_principal, couple_mode, params_partenaire,
                   calculateur_principal, calculateur_partenaire, resultat_principal,
                   resultat_partenaire, scenario_immo, annee_retrait,
                   resultat_principal_immo, resultat_partenaire_immo>>
    /\ UNCHANGED varsMoteur

\* calculateur_partenaire = CalculateurPrevoyance(**params_partenaire)
\* resultat_partenaire = calculateur_partenaire.calculer()
CalculPartenaire ==
    /\ pc = "calcul_partenaire"
    /\ calculateur_partenaire' = Some(CalculateurPrevoyance(params_partenaire[1]))
    /\ resultat_partenaire' = Some(calculer(calculateur_partenaire'[1], NONE))
    /\ pc' = "resultats"
    /\ UNCHANGED <<params_principal, couple_mode, params_partenaire,
                   calculateur_principal, resultat_principal, erreurs,
                   scenario_immo, annee_retrait, resultat_principal_immo,
                   resultat_partenaire_immo>>
    /\ UNCHANGED varsMoteur

\* The results are shown (no state of the run changes), then
\* scenario_immo = st.checkbox(...); without the scenario the run ends.
AfficherResultats ==
    /\ pc = "resultats"
    /\ \E c \in BOOLEAN :
         /\ scenario_immo' = c
         /\ pc' = IF c THEN "scenario" ELSE "fin"
    /\ UNCHANGED <<params_principal, couple_mode, params_partenaire,
                   calculateur_principal, calculateur_partenaire, resultat_principal,
                   resultat_partenaire, erreurs, annee_retrait,
                   resultat_principal_immo, resultat_partenaire_immo>>
    /\ UNCHANGED varsMoteur

\* Variant of max_annees that ignores the partner's horizon.
max_annees_Principal == calculateur_principal[1].annees

\* max_annees of the scenario: the principal's horizon, in couple mode the
\* shorter of the two horizons.
max_annees ==
    IF couple_mode /\ calculateur_partenaire # NONE
    THEN Min(calculateur_principal[1].annees, calculateur_partenaire[1].annees)
    ELSE calculateur_principal[1].annees

\* if max_annees <= 0: st.warning(...)
\* else: annee_retrait = st.slider(min_value=1, max_value=max_annees)
ChoisirAnneeRetrait ==
    /\ pc = "scenario"
    /\ IF max_annees <= 0
       THEN /\ erreurs' = Append(erreurs, "aucune_annee")
            /\ annee_retrait' = annee_retrait
            /\ pc' = "fin"
       ELSE /\ erreurs' = erreurs
            /\ \E a \in 1..max_annees : annee_retrait' = Some(a)
            /\ pc' = "calcul_immo"
    /\ UNCHANGED <<params_principal, couple_mode, params_partenaire,
                   calculateur_principal, calculateur_partenaire, resultat_principal,
                   resultat_partenaire, scenario_immo, resultat_principal_immo,
                   resultat_partenaire_immo>>
    /\ UNCHANGED varsMoteur

\* resultat_principal_immo = calculateur_principal.calculer(annee_retrait=...)
\* and, in couple mode, the same call on the partner's calculator.
CalculImmo ==
    /\ pc = "calcul_immo"
    /\ resultat_principal_immo'
         = Some(calculer(calculateur_principal[1], annee_retrait))
    /\ IF couple_mode /\ calculateur_partenaire # NONE /\ resultat_partenaire # NONE
       THEN resultat_partenaire_immo'
              = Some(calculer(calculateur_partenaire[1], annee_retrait))
       ELSE resultat_partenaire_immo' = resultat_partenaire_immo
    /\ pc' = "fin"
    /\ UNCHANGED <<params_principal, couple_mode, params_partenaire,
                   calculateur_principal, calculateur_partenaire, resultat_principal,
                   resultat_partenaire, erreurs, scenario_immo, annee_retrait>>
    /\ UNCHANGED varsMoteur

NextApp ==
    \/ CollecterParametres
    \/ ValiderPrincipal
    \/ CalculPrincipal
    \/ ValiderPartenaire
    \/ CalculPartenaire
    \/ AfficherResultats
    \/ ChoisirAnneeRetrait
    \/ CalculImmo

SpecApp == InitApp /\ [][NextApp]_vars

(***************************************************************************)
(* Properties of the app (specification SpecApp).                          *)
(***************************************************************************)

\* The principal profile collected has a retirement age that does not exceed
\* the current age.
PrincipalInvalide ==
    /\ params_principal # NONE
    /\ params_principal[1].age_retraite <= params_principal[1].age_depart

\* C10: a principal profile whose retirement age does not exceed the current
\* age is rejected with an error message before any calculator is constructed
\* or any projection is run: in such a run no calculator and no result ever
\* exists, the run goes from the check straight to its end, and at its end the
\* error of the principal profile is the message shown.
C10_RejetPrincipal ==
    PrincipalInvalide =>
        /\ calculateur_principal = NONE
        /\ calculateur_partenaire = NONE
        /\ resultat_principal = NONE
        /\ resultat_partenaire = NONE
        /\ resultat_principal_immo = NONE
        /\ resultat_partenaire_immo = NONE
        /\ pc \in { "valider_principal", "fin" }
        /\ pc = "fin" => erreurs = <<"age_principal">>

\* A run with equal ages has ended on the error of the principal profile.
C10_Witness ==
    /\ pc = "fin"
    /\ params_principal # NONE
    /\ params_principal[1].age_retraite = params_principal[1].age_depart
    /\ erreurs = <<"age_principal">>
    /\ resultat_principal = NONE

\* The partner profile collected in couple mode has a retirement age that does
\* not exceed the current age.
PartenaireInvalide ==
    /\ couple_mode
    /\ params_partenaire # NONE
    /\ params_partenaire[1].age_retraite <= params_partenaire[1].age_depart

\* C11: in couple mode a validation failure of the partner profile is reported
\* before any projection runs: in a run whose partner profile fails the check,
\* no calculator is constructed and no projection is run for either profile.
C11_PartenaireAvantCalcul ==
    PartenaireInvalide =>
        /\ calculateur_principal = NONE
        /\ resultat_principal = NONE
        /\ calculateur_partenaire = NONE
        /\ resultat_partenaire = NONE

\* retirement age - current age of each profile, from the collected parameters.
HorizonPrincipal ==
    params_principal[1].age_retraite - params_principal[1].age_depart

HorizonPartenaire ==
    params_partenaire[1].age_retraite - params_partenaire[1].age_depart

\* C12: whenever the app runs the withdrawal scenario, the withdrawal year
\* passed to every engine is in 1..min(horizon of principal, horizon of
\* partner), 1..horizon of principal without a partner, so that it lies inside
\* the own horizon of each profile; each scenario result was computed with that
\* year; when the bound is <= 0 no withdrawal year is read and no scenario
\* result is computed.
C12_AnneeRetraitBornee ==
    /\ annee_retrait # NONE =>
         /\ annee_retrait[1] \in 1..HorizonPrincipal
         /\ (couple_mode /\ params_partenaire # NONE) =>
              annee_retrait[1] \in 1..HorizonPartenaire
    /\ resultat_principal_immo # NONE =>
         /\ annee_retrait # NONE
         /\ resultat_principal_immo[1].annee_retrait = annee_retrait
    /\ resultat_partenaire_immo # NONE =>
         /\ annee_retrait # NONE
         /\ resultat_partenaire_immo[1].annee_retrait = annee_retrait
         /\ resultat_principal_immo # NONE
    /\ (calculateur_principal # NONE /\ max_annees <= 0) =>
         /\ annee_retrait = NONE
         /\ resultat_principal_immo = NONE
         /\ resultat_partenaire_immo = NONE

\* The scenario has run for a couple whose partner has the shorter horizon, in
\* the partner's last year, and both engines have reported a withdrawal.
C12_Witness ==
    /\ pc = "fin"
    /\ couple_mode
    /\ resultat_principal_immo # NONE
    /\ resultat_partenaire_immo # NONE
    /\ HorizonPartenaire < HorizonPrincipal
    /\ annee_retrait = Some(HorizonPartenaire)
    /\ resultat_principal_immo[1].montant_retrait_immo > 0
    /\ resultat_partenaire_immo[1].montant_retrait_immo > 0
    /\ resultat_partenaire_immo[1].capital_lpp_nominal = 0

(***************************************************************************)
(* Further properties of the engine called directly (specification Spec).  *)
(***************************************************************************)

\* C13: each participating scheme accumulates, is reset once, and accumulates
\* again from zero: with the withdrawal year w < horizon, the records 1..w-1
\* are those of the run without withdrawal, record w has capital_lpp = 0 and
\* capital_3a = 0, record w+1 holds what one year of accumulation from a zero
\* balance yields (the contributions of year w+1 and their interest), every
\* later year accumulates on the capital of the year before with no further
\* reset, and the contributions of the years after w are those of the run
\* without withdrawal.
C13_RemiseUnique ==
    (RetraitDansHorizon /\ Res.annee_retrait[1] < Horizon) =>
        LET w == Res.annee_retrait[1]
            base == calculer(calculateur, NONE)
            taux_3a == Racine12(RateScale + calculateur.rendement_3a) - RateScale
            UnAn3a(capital) ==
              MoisEpargne([ capital |-> capital, versements_totaux |-> 0 ], taux_3a,
                          calculateur.montant_mensuel_3a, Mois).capital
            UnAnLpp(capital, y) ==
              MoisLpp(capital, calculateur.rendement_lpp_mensuel,
                      Res.detail_annuel[y].cotisation_totale \div Mois, Mois)
        IN  /\ \A y \in 1..(w - 1) : Res.detail_annuel[y] = base.detail_annuel[y]
            /\ Res.detail_annuel[w].capital_lpp = 0
            /\ Res.detail_annuel[w].capital_3a = 0
            /\ Res.detail_annuel[w + 1].capital_3a = UnAn3a(0)
            /\ Res.detail_annuel[w + 1].capital_lpp = UnAnLpp(0, w + 1)
            /\ \A y \in (w + 2)..Horizon :
                 /\ Res.detail_annuel[y].capital_3a
                      = UnAn3a(Res.detail_annuel[y - 1].capital_3a)
                 /\ Res.detail_annuel[y].capital_lpp
                      = UnAnLpp(Res.detail_annuel[y - 1].capital_lpp, y)
            /\ \A y \in (w + 1)..Horizon :
                 /\ Res.detail_annuel[y].retrait_immobilier = NONE
                 /\ Res.detail_annuel[y].cotisation_employe
                      = base.detail_annuel[y].cotisation_employe
                 /\ Res.detail_annuel[y].cotisation_employeur
                      = base.detail_annuel[y].cotisation_employeur
                 /\ Res.detail_annuel[y].cotisation_totale
                      = base.detail_annuel[y].cotisation_totale

\* A withdrawal in the first of three years with an initial occupational
\* capital: the year after the reset holds less than the initial capital, and
\* the last year more than the year after the reset.
C13_Witness ==
    /\ RetraitDansHorizon
    /\ Res.annee_retrait[1] = 1
    /\ Horizon >= 3
    /\ calculateur.lpp_capital_initial > 0
    /\ Res.detail_annuel[2].capital_lpp > 0
    /\ Res.detail_annuel[2].capital_lpp < calculateur.lpp_capital_initial
    /\ Res.detail_annuel[2].capital_3a > 0
    /\ Res.detail_annuel[3].capital_lpp > Res.detail_annuel[2].capital_lpp

\* C14: for every year, coordinated salary = max(0, salary - coordination
\* deduction) and insured salary = coordinated salary with supplementary
\* coverage, min(coordinated salary, ceiling) without; when the deduction is >=
\* the salary of the year, the insured salary and the employee, employer and
\* total contributions of the year are 0, and the projection still returns a
\* record for every year.
C14_SalaireAssure ==
    resultat # NONE =>
        /\ Len(Res.detail_annuel) = Horizon
        /\ \A y \in 1..Len(Res.detail_annuel) :
             LET r == Res.detail_annuel[y]
                 difference == r.salaire_brut - calculateur.montant_coordination
                 coordonne == IF difference >= 0 THEN difference ELSE 0
                 assure ==
                   IF calculateur.couvrir_surobligatoire THEN coordonne
                   ELSE IF coordonne <= calculateur.salaire_coordonne_max
                        THEN coordonne
                        ELSE calculateur.salaire_coordonne_max
             IN  /\ r.salaire_coordonne = assure
                 /\ calculateur.montant_coordination >= r.salaire_brut =>
                      /\ r.salaire_coordonne = 0
                      /\ r.cotisation_employe = 0
                      /\ r.cotisation_employeur = 0
                      /\ r.cotisation_totale = 0

\* A projection over two years or more whose deduction exceeds the salary of
\* every year: no contribution, and a record for every year.
C14_Witness ==
    /\ resultat # NONE
    /\ Horizon >= 2
    /\ Len(Res.detail_annuel) = Horizon
    /\ \A y \in 1..Horizon :
         /\ calculateur.montant_coordination > Res.detail_annuel[y].salaire_brut
         /\ Res.detail_annuel[y].salaire_brut > 0
         /\ Res.detail_annuel[y].cotisation_totale = 0

\* C15 as stated: a horizon of 0 years yields an empty detail sequence and zero
\* final capital for every scheme, the occupational scheme included.
C15_HorizonNulSansCapital ==
    (resultat # NONE /\ Horizon = 0) =>
        /\ Res.detail_annuel = <<>>
        /\ Res.capital_3a_nominal = 0
        /\ Res.capital_sp500_nominal = 0
        /\ Res.capital_lpp_nominal = 0
        /\ Res.capital_total_nominal = 0

\* C15, amended: a horizon of 0 years yields an empty detail sequence, zero
\* final capital for the personal-savings and indexed-investment schemes, no
\* contribution and no withdrawal; the final occupational capital, and with it
\* the total, is the initial occupational capital lpp_capital_initial, nominal
\* and real, which is 0 only when lpp_capital_initial is 0.
C15_HorizonNul ==
    (resultat # NONE /\ Horizon = 0) =>
        /\ Res.detail_annuel = <<>>
        /\ Res.capital_3a_nominal = 0
        /\ Res.capital_sp500_nominal = 0
        /\ Res.capital_lpp_nominal = params.lpp_capital_initial
        /\ Res.capital_total_nominal = params.lpp_capital_initial
        /\ Res.capital_lpp_reel = params.lpp_capital_initial
        /\ Res.capital_total_reel = params.lpp_capital_initial
        /\ Res.versements_totaux_3a = 0
        /\ Res.versements_totaux_sp500 = 0
        /\ Res.cotisations_totales_lpp = 0
        /\ Res.montant_retrait_immo = 0

\* A calculator with equal ages and a positive initial occupational capital has
\* returned a result.
C15_Witness ==
    /\ resultat # NONE
    /\ Horizon = 0
    /\ params.lpp_capital_initial > 0
    /\ params.montant_mensuel_3a > 0
    /\ Res.detail_annuel = <<>>
    /\ Res.capital_lpp_nominal > 0

\* C16: cumulative personal-savings contributions are independent of
\* withdrawals: for every withdrawal-year argument, versements_totaux_3a is the
\* monthly contribution * 12 * horizon, as in the run without withdrawal.
C16_VersementsTotaux ==
    resultat # NONE =>
        /\ Res.versements_totaux_3a = params.montant_mensuel_3a * 12 * Horizon
        /\ Res.versements_totaux_3a
             = calculer(calculateur, NONE).versements_totaux_3a

\* A withdrawal before the last year with a positive monthly contribution: the
\* final personal-savings capital is below the contributions paid in.
C16_Witness ==
    /\ RetraitDansHorizon
    /\ Res.annee_retrait[1] < Horizon
    /\ params.montant_mensuel_3a > 0
    /\ Res.versements_totaux_3a > 0
    /\ Res.capital_3a_nominal > 0
    /\ Res.capital_3a_nominal < Res.versements_totaux_3a

\* C17: in every merged yearly record, with or without a withdrawal,
\* capital_total = capital_lpp + capital_3a + capital_sp500 of that record; in
\* the withdrawal year this is the sum after the reset.
C17_CapitalTotal ==
    resultat # NONE =>
        \A y \in 1..Len(Res.detail_annuel) :
            Res.detail_annuel[y].capital_total
              = Res.detail_annuel[y].capital_lpp + Res.detail_annuel[y].capital_3a
                  + Res.detail_annuel[y].capital_sp500

\* A withdrawal before the last year: the record of the withdrawal year totals
\* the indexed investment alone, next to a positive withdrawal, and the record
\* after it totals three positive capitals.
C17_Witness ==
    /\ RetraitDansHorizon
    /\ Res.annee_retrait[1] < Horizon
    /\ Res.detail_annuel[Res.annee_retrait[1]].retrait_immo_total > 0
    /\ Res.detail_annuel[Res.annee_retrait[1]].capital_sp500 > 0
    /\ Res.detail_annuel[Res.annee_retrait[1]].capital_total
         = Res.detail_annuel[Res.annee_retrait[1]].capital_sp500
    /\ Res.detail_annuel[Res.annee_retrait[1] + 1].capital_lpp > 0
    /\ Res.detail_annuel[Res.annee_retrait[1] + 1].capital_3a > 0

\* The years whose merged record carries a withdrawal amount.
AnneesAvecRetrait ==
    { y \in 1..Len(Res.detail_annuel) :
        \/ Res.detail_annuel[y].retrait_immobilier # NONE
        \/ "retrait_immo_total" \in DOMAIN Res.detail_annuel[y] }

\* C18: a withdrawal amount is populated only in the withdrawal year: no record
\* of another year, and no record at all when no withdrawal year is given or
\* when it is outside 1..horizon, has a retrait_immobilier or a
\* retrait_immo_total; with the withdrawal year in 1..horizon exactly one
\* record, that of the withdrawal year, carries both.
C18_RetraitSeuleAnnee ==
    resultat # NONE =>
        IF RetraitDansHorizon
        THEN /\ AnneesAvecRetrait = { Res.annee_retrait[1] }
             /\ Res.detail_annuel[Res.annee_retrait[1]].retrait_immobilier # NONE
             /\ "retrait_immo_total"
                  \in DOMAIN Res.detail_annuel[Res.annee_retrait[1]]
        ELSE AnneesAvecRetrait = {}

\* A withdrawal in the second of three years or more.
C18_Witness ==
    /\ RetraitDansHorizon
    /\ Horizon >= 3
    /\ Res.annee_retrait[1] = 2
    /\ AnneesAvecRetrait = { 2 }
    /\ Res.detail_annuel[2].retrait_immobilier[1] > 0
    /\ Res.detail_annuel[2].retrait_immo_total
         > Res.detail_annuel[2].retrait_immobilier[1]

\* The sum of a field over the first n yearly records of the last result.
RECURSIVE SommeDetail(_, _)
SommeDetail(champ, n) ==
    IF n <= 0 THEN 0
    ELSE SommeDetail(champ, n - 1) + Res.detail_annuel[n][champ]

ArgsCouple == { NONE, Some(1), Some(2) }

\* Both profiles have passed the age checks of main() and both calculators are
\* constructed; no projection has run yet.
InitCouple ==
    /\ pc = "couple"
    /\ couple_mode = TRUE
    /\ \E p \in ParamsPrincipal :
         /\ p.age_retraite > p.age_depart
         /\ params_principal = Some(p)
         /\ calculateur_principal = Some(CalculateurPrevoyance(p))
    /\ \E q \in ParamsPartenaire :
         /\ q.age_retraite > q.age_depart
         /\ params_partenaire = Some(q)
         /\ calculateur_partenaire = Some(CalculateurPrevoyance(q))
    /\ resultat_principal = NONE
    /\ resultat_partenaire = NONE
    /\ erreurs = <<>>
    /\ scenario_immo = FALSE
    /\ annee_retrait = NONE
    /\ resultat_principal_immo = NONE
    /\ resultat_partenaire_immo = NONE
    /\ MoteurArret

\* calculateur_principal.calculer(annee_retrait=w).
CalculerPrincipal(w) ==
    /\ pc = "couple"
    /\ resultat_principal' = Some(calculer(calculateur_principal[1], w))
    /\ UNCHANGED <<pc, params_principal, couple_mode, params_partenaire,
                   calculateur_principal, calculateur_partenaire,
                   resultat_partenaire, erreurs, scenario_immo, annee_retrait,
                   resultat_principal_immo, resultat_partenaire_immo>>
    /\ UNCHANGED varsMoteur

\* Variant of CalculerPartenaire in which annees is an attribute of the class,
\* shared by all calculators, that each call sets to the horizon of its own
\* calculator.
CalculerPartenaire_AnneesDeClasse(w) ==
    /\ pc = "couple"
    /\ resultat_partenaire' = Some(calculer(calculateur_partenaire[1], w))
    /\ calculateur_principal' =
         Some([ calculateur_principal[1] EXCEPT
                  !.annees = calculateur_partenaire[1].annees ])
    /\ UNCHANGED <<pc, params_principal, couple_mode, params_partenaire,
                   calculateur_partenaire, resultat_principal, erreurs,
                   scenario_immo, annee_retrait, resultat_principal_immo,
                   resultat_partenaire_immo>>
    /\ UNCHANGED varsMoteur

\* calculateur_partenaire.calculer(annee_retrait=w).
CalculerPartenaire(w) ==
    /\ pc = "couple"
    /\ resultat_partenaire' = Some(calculer(calculateur_partenaire[1], w))
    /\ UNCHANGED <<pc, params_principal, couple_mode, params_partenaire,
                   calculateur_principal, calculateur_partenaire,
                   resultat_principal, erreurs, scenario_immo, annee_retrait,
                   resultat_principal_immo, resultat_partenaire_immo>>
    /\ UNCHANGED varsMoteur

NextCouple ==
    \E w \in ArgsCouple :
        \/ CalculerPrincipal(w)
        \/ CalculerPartenaire(w)

SpecCouple == InitCouple /\ [][NextCouple]_vars

\* What a calculator built from the parameters p, and called alone and for the
\* first time with the withdrawal-year argument w, returns.
ResultatSeul(p, w) == calculer(CalculateurPrevoyance(p), w)

\* After any calls on the two calculators, each calculator is as constructed
\* from its own parameters and each result is that of its profile run alone.
ProfilsIndependants ==
    /\ calculateur_principal = Some(CalculateurPrevoyance(params_principal[1]))
    /\ calculateur_partenaire = Some(CalculateurPrevoyance(params_partenaire[1]))
    /\ resultat_principal # NONE =>
         resultat_principal[1]
           = ResultatSeul(params_principal[1], resultat_principal[1].annee_retrait)
    /\ resultat_partenaire # NONE =>
         resultat_partenaire[1]
           = ResultatSeul(params_partenaire[1], resultat_partenaire[1].annee_retrait)

\* A step that produces a result for one profile leaves the parameters of both
\* profiles, and the calculator and the result of the other profile, unchanged.
PasSansEffetSurAutre ==
    /\ params_principal' = params_principal
    /\ params_partenaire' = params_partenaire
    /\ resultat_principal' # resultat_principal =>
         /\ calculateur_partenaire' = calculateur_partenaire
         /\ resultat_partenaire' = resultat_partenaire
    /\ resultat_partenaire' # resultat_partenaire =>
         /\ calculateur_principal' = calculateur_principal
         /\ resultat_principal' = resultat_principal

\* C20: the engines of the two profiles share no state: whatever the order and
\* the interleaving of the projections of the principal and of the partner,
\* each profile gets the result of running it alone, and computing the result
\* of one profile never changes the parameters, the calculator or an already
\* produced result of the other.
C20_ProfilsIndependants ==
    /\ []ProfilsIndependants
    /\ [][PasSansEffetSurAutre]_vars

\* Both profiles, with different horizons, have results: the principal's from a
\* call with a withdrawal in its horizon, the partner's from a call without.
C20_Witness ==
    /\ pc = "couple"
    /\ resultat_principal # NONE
    /\ resultat_partenaire # NONE
    /\ HorizonPrincipal # HorizonPartenaire
    /\ resultat_principal[1].annee_retrait # NONE
    /\ resultat_principal[1].montant_retrait_immo > 0
    /\ resultat_partenaire[1].annee_retrait = NONE
    /\ resultat_partenaire[1].capital_lpp_nominal > 0

(***************************************************************************)
(* Last properties of the engine called directly (specification Spec).     *)
(***************************************************************************)

RetraitHorsHorizon ==
    /\ resultat # NONE
    /\ Res.annee_retrait # NONE
    /\ Res.annee_retrait[1] \notin 1..Horizon

\* C22: the engine does not validate the withdrawal year: a call with a
\* withdrawal year outside 1..horizon (0, negative, or above the horizon)
\* returns a result, with no reset, montant_retrait_immo = 0 and no record
\* carrying a withdrawal amount, whose capitals, totals and records are those
\* of the run without withdrawal, and whose annee_retrait is the value given,
\* not None.
C22_RetraitHorsHorizon ==
    RetraitHorsHorizon =>
        LET base == calculer(calculateur, NONE)
        IN  /\ Res.montant_retrait_immo = 0
            /\ AnneesAvecRetrait = {}
            /\ Res.detail_annuel = base.detail_annuel
            /\ base.annee_retrait = NONE
            /\ Res = [ base EXCEPT !.annee_retrait = Res.annee_retrait ]

\* A call with the withdrawal year horizon + 1 has returned positive capitals.
C22_Witness ==
    /\ RetraitHorsHorizon
    /\ Horizon >= 2
    /\ Res.annee_retrait = Some(Horizon + 1)
    /\ Res.montant_retrait_immo = 0
    /\ Res.capital_lpp_nominal > 0
    /\ Res.capital_3a_nominal > 0

====
